---- MODULE Spec2Model ----
(***************************************************************************)
(* AquaSafe Pro (src/app.py): a Streamlit script that is re-executed from  *)
(* top to bottom for every page load, rerun and form submission of every   *)
(* browser session served by one process.                                  *)
(*                                                                         *)
(* Numbers.  Every slider delivers a multiple of its step, and every       *)
(* threshold of the script (4.5 5.5 6.5 8.5 9.5 / 30 40 / 5 20 / 6 3 /     *)
(* 1000 1500) is exactly representable in binary floating point and lies   *)
(* on the grid of its slider, so each comparison of the script is decided  *)
(* exactly by the comparison of the grid indices.  Values are therefore    *)
(* kept as integers in units of the slider step:                           *)
(*     ph                tenths            (7.0  -> 70)                    *)
(*     temperature       halves of a degree (22.0 -> 44, 30 -> 60)         *)
(*     turbidity         hundredths        (0.01 -> 1,  5 -> 500)          *)
(*     dissolved_oxygen  tenths            (8.0  -> 80, 6 -> 60)           *)
(*     conductivity      uS/cm             (an int slider, step 10)        *)
(* Probabilities are multiples of 1/ProbScale; a confidence is a           *)
(* percentage in units of 1/ProbScale, so 100 % is 100 * ProbScale.        *)
(***************************************************************************)
EXTENDS Integers, Sequences, FiniteSets, TLC

\* ----------------------------------------------------------------- bounds
NumSessions == 2        \* browser sessions served by the process
NumArtifacts == 2       \* distinct trained artifacts that may lie on disk
ProbScale == 4          \* resolution of the class probabilities
MaxLoads == 4           \* cap on the count of deserializations

Sessions == 1..NumSessions

\* ---------------------------------------------------------------- sliders
\* st.slider(label, min_value, max_value, value, step), in step units.
ph_slider == [min_value |-> 0, max_value |-> 140, value |-> 70, step |-> 1]
temperature_slider == [min_value |-> 0, max_value |-> 100, value |-> 44, step |-> 1]
turbidity_slider == [min_value |-> 0, max_value |-> 300, value |-> 1, step |-> 1]
dissolved_oxygen_slider == [min_value |-> 0, max_value |-> 2000, value |-> 80, step |-> 1]
conductivity_slider == [min_value |-> 0, max_value |-> 20000, value |-> 350, step |-> 10]

\* Whether v is a value the slider can deliver: min_value + k * step, at
\* most max_value.
OnSlider(sl, v) ==
    /\ sl.min_value <= v
    /\ v <= sl.max_value
    /\ (v - sl.min_value) % sl.step = 0

SliderValues(sl) == {v \in sl.min_value..sl.max_value : OnSlider(sl, v)}

\* The positions the modelled user leaves a slider at before submitting.
Stops(sl) == {v \in {sl.value, sl.max_value} : OnSlider(sl, v)}

\* The five variables the script binds from the sliders.
Values(p, t, u, d, c) ==
    [ph |-> p, temperature |-> t, turbidity |-> u,
     dissolved_oxygen |-> d, conductivity |-> c]

DefaultValues ==
    Values(ph_slider.value, temperature_slider.value, turbidity_slider.value,
           dissolved_oxygen_slider.value, conductivity_slider.value)

\* What a form can deliver in the model: the sliders as they were
\* initialised, or one of them moved to one of its stops.
FormValues ==
    {DefaultValues}
    \cup {[DefaultValues EXCEPT !.ph = p] : p \in Stops(ph_slider)}
    \cup {[DefaultValues EXCEPT !.temperature = t] :
             t \in Stops(temperature_slider)}
    \cup {[DefaultValues EXCEPT !.turbidity = u] : u \in Stops(turbidity_slider)}
    \cup {[DefaultValues EXCEPT !.dissolved_oxygen = d] :
             d \in Stops(dissolved_oxygen_slider)}
    \cup {[DefaultValues EXCEPT !.conductivity = c] :
             c \in Stops(conductivity_slider)}

\* ------------------------------------------------------- threshold tables
\* A status string is its leading icon and its word.
Status(icon, text) == [icon |-> icon, text |-> text]

ph_status(ph) ==
    IF 65 <= ph /\ ph <= 85 THEN Status("check", "Optimal")
    ELSE IF ph > 85 THEN Status("warning", "Alkaline")
    ELSE IF ph >= 45 THEN Status("warning", "Acidic")
    ELSE Status("cross", "Dangerous")

\* The temperature chain with its first comparison inclusive.
temperature_status_inclusive(temperature) ==
    IF temperature <= 60 THEN Status("check", "Normal")
    ELSE IF temperature < 80 THEN Status("warning", "Elevated")
    ELSE Status("cross", "Extreme")

temperature_status(temperature) ==
    IF temperature < 60 THEN Status("check", "Normal")
    ELSE IF temperature < 80 THEN Status("warning", "Elevated")
    ELSE Status("cross", "Extreme")

turbidity_status(turbidity) ==
    IF turbidity < 500 THEN Status("check", "Clear")
    ELSE IF turbidity < 2000 THEN Status("warning", "Cloudy")
    ELSE Status("cross", "Very Turbid")

dissolved_oxygen_status(dissolved_oxygen) ==
    IF dissolved_oxygen >= 60 THEN Status("check", "Healthy")
    ELSE IF dissolved_oxygen >= 30 THEN Status("warning", "Low")
    ELSE Status("cross", "Hypoxic")

conductivity_status(conductivity) ==
    IF conductivity < 1000 THEN Status("check", "Normal")
    ELSE IF conductivity < 1500 THEN Status("warning", "High")
    ELSE Status("cross", "Very High")

ph_impact(ph) ==
    IF 65 <= ph /\ ph <= 85 THEN "Ideal for drinking"
    ELSE IF (85 < ph /\ ph <= 95) \/ (55 <= ph /\ ph < 65)
         THEN "May cause irritation"
    ELSE "Harmful to health"

temperature_impact(temperature) ==
    IF temperature < 60 THEN "No direct impact"
    ELSE IF temperature < 80 THEN "Affects taste"
    ELSE "Risk of scalding"

turbidity_impact(turbidity) ==
    IF turbidity < 500 THEN "Clear and safe"
    ELSE IF turbidity < 2000 THEN "May harbor pathogens"
    ELSE "High pathogen risk"

dissolved_oxygen_impact(dissolved_oxygen) ==
    IF dissolved_oxygen >= 60 THEN "Supports aquatic life"
    ELSE IF dissolved_oxygen >= 30 THEN "Stressful for organisms"
    ELSE "Dangerously low oxygen"

conductivity_impact(conductivity) ==
    IF conductivity < 1000 THEN "Normal mineral content"
    ELSE IF conductivity < 1500 THEN "Elevated minerals"
    ELSE "Very high contamination risk"

Row(parameter, value, unit, range, status, impact) ==
    [Parameter |-> parameter, YourValue |-> [value |-> value, unit |-> unit],
     SafeRange |-> range, Status |-> status, HealthImpact |-> impact]

\* The detail table, one row per parameter in the order of the script.
param_eval(v) ==
    << Row("pH", v.ph, "", "6.5-8.5", ph_status(v.ph), ph_impact(v.ph)),
       Row("Temperature", v.temperature, "C", "< 30 C",
           temperature_status(v.temperature),
           temperature_impact(v.temperature)),
       Row("Turbidity", v.turbidity, "NTU", "< 5 NTU",
           turbidity_status(v.turbidity), turbidity_impact(v.turbidity)),
       Row("Dissolved Oxygen", v.dissolved_oxygen, "mg/L", ">= 6 mg/L",
           dissolved_oxygen_status(v.dissolved_oxygen),
           dissolved_oxygen_impact(v.dissolved_oxygen)),
       Row("Conductivity", v.conductivity, "uS/cm", "< 1000 uS/cm",
           conductivity_status(v.conductivity),
           conductivity_impact(v.conductivity)) >>

Metric(label, value, delta, delta_color) ==
    [label |-> label, value |-> value, delta |-> delta,
     delta_color |-> delta_color]

\* The three st.metric summary indicators.
metrics(v) ==
    << Metric("pH Level", v.ph,
              IF 65 <= v.ph /\ v.ph <= 85 THEN "Optimal" ELSE "Caution",
              IF 65 <= v.ph /\ v.ph <= 85 THEN "normal" ELSE "off"),
       Metric("Dissolved Oxygen", v.dissolved_oxygen,
              IF v.dissolved_oxygen >= 60 THEN "Healthy" ELSE "Low",
              IF v.dissolved_oxygen >= 60 THEN "normal" ELSE "off"),
       Metric("Conductivity", v.conductivity,
              IF v.conductivity < 1000 THEN "Normal" ELSE "High",
              IF v.conductivity < 1000 THEN "normal" ELSE "off") >>

\* ------------------------------------------------------------ the model
\* The trained artifact is an opaque file.  What the script relies on is that
\* a deserialized pipeline answers predict and predict_proba as functions of
\* (pipeline, input) alone; artifact k of 1..NumArtifacts stands for one such
\* pair of functions.  The input is the one-row DataFrame, columns in the
\* order the script gives them.
input_frame(v) ==
    << v.ph, v.temperature, v.turbidity, v.dissolved_oxygen, v.conductivity >>

Score(clf, input_data) ==
    (clf * (1 + input_data[1] + input_data[2] + input_data[3] + input_data[4]
            + (input_data[5] \div 10))) % (ProbScale + 1)

\* pipeline.predict_proba(input_data)[0]: one probability per class.
predict_proba(clf, input_data) ==
    << ProbScale - Score(clf, input_data), Score(clf, input_data) >>

\* pipeline.predict(input_data)[0]: the class label, 0 or 1.
predict(clf, input_data) ==
    IF 2 * Score(clf, input_data) > ProbScale THEN 1 ELSE 0

\* Every vector of two class probabilities: non-negative, summing to one.
ProbaVectors == {<< ProbScale - h, h >> : h \in 0..ProbScale}

SeqMax(q) == CHOOSE m \in {q[i] : i \in DOMAIN q} : \A i \in DOMAIN q : q[i] <= m

SeqMin(q) == CHOOSE m \in {q[i] : i \in DOMAIN q} : \A i \in DOMAIN q : m <= q[i]

confidence_of_min(prediction_proba) == SeqMin(prediction_proba) * 100

\* confidence = max(prediction_proba) * 100
confidence(prediction_proba) == SeqMax(prediction_proba) * 100

\* The verdict panel: the green one when `prediction` is truthy, else the red
\* one, each interpolating the confidence.
verdict_panel(prediction, conf) ==
    [shown |-> TRUE, safe |-> (prediction # 0), confidence |-> conf]

NoPanel == [shown |-> FALSE, safe |-> FALSE, confidence |-> 0]

Output(rendered, proba, panel, rows, mets) ==
    [rendered |-> rendered, prediction_proba |-> proba, panel |-> panel,
     rows |-> rows, metrics |-> mets]

NoOutput == Output(FALSE, << >>, NoPanel, << >>, << >>)

\* A renderer that marks the conductivity row by the verdict.
render_tinted(v, prediction, prediction_proba) ==
    Output(TRUE, prediction_proba,
           verdict_panel(prediction, confidence(prediction_proba)),
           [param_eval(v) EXCEPT ![5].Status =
               IF prediction # 0 THEN @ ELSE Status("cross", "Very High")],
           metrics(v))

\* Everything the `if submitted:` body displays, given the model's answers.
render(v, prediction, prediction_proba) ==
    Output(TRUE, prediction_proba,
           verdict_panel(prediction, confidence(prediction_proba)),
           param_eval(v), metrics(v))

\* ------------------------------------------------------------ the state
VARIABLES
    artifact,   \* water_quality_model.pkl on disk: 0 when it is missing or
                \* cannot be deserialized, else the artifact lying there
    cache,      \* the st.cache_resource entry of load_pipeline
    loads,      \* how many times joblib.load has returned an object
    values,     \* per session: the slider values the server holds
    page,       \* per session: what its latest script run displayed
    sample,     \* renderer alone: the sample under evaluation
    out,        \* renderer alone: the latest rendering of `sample`
    prev        \* renderer alone: the rendering before that

vars == << artifact, cache, loads, values, page, sample, out, prev >>

procVars == << artifact, cache, loads, values, page >>

evalVars == << sample, out, prev >>

\* A deserialized object: its identity and the artifact it was read from.
Pipeline(obj, clf) == [full |-> TRUE, obj |-> obj, clf |-> clf]

NoPipeline == [full |-> FALSE, obj |-> 0, clf |-> 0]

\* joblib.load('water_quality_model.pkl'): a fresh object, or an exception.
joblib_load(file, n) ==
    IF file = 0 THEN [ok |-> FALSE, pipeline |-> NoPipeline]
    ELSE [ok |-> TRUE, pipeline |-> Pipeline(n, file)]

Loaded(ok, c, pipeline, deserialized) ==
    [ok |-> ok, cache |-> c, pipeline |-> pipeline,
     deserialized |-> deserialized]

\* load_pipeline without its decorator: every call deserializes.
load_pipeline_uncached(c, file, n) ==
    IF joblib_load(file, n).ok
    THEN Loaded(TRUE, joblib_load(file, n).pipeline,
                joblib_load(file, n).pipeline, 1)
    ELSE Loaded(FALSE, c, NoPipeline, 0)

\* @st.cache_resource load_pipeline(): a stored entry is returned as it is;
\* otherwise the body runs, and its return value is stored.  An exception
\* of the body propagates to the caller and stores nothing.  The entry has
\* no ttl and no max_entries, and the script never clears it.  Callers of
\* several sessions are serialized by the cache's lock, which is why a run's
\* call is one step here.
load_pipeline(c, file, n) ==
    IF c.full THEN Loaded(TRUE, c, c, 0)
    ELSE IF joblib_load(file, n).ok
         THEN Loaded(TRUE, joblib_load(file, n).pipeline,
                     joblib_load(file, n).pipeline, 1)
    ELSE Loaded(FALSE, c, NoPipeline, 0)

Page(outcome, form, submitted, pipeline, input_data, predicts, probas, output) ==
    [outcome |-> outcome, form |-> form, submitted |-> submitted,
     pipeline |-> pipeline, input_data |-> input_data,
     predict_calls |-> predicts, proba_calls |-> probas, output |-> output]

NoPage == Page("none", FALSE, FALSE, NoPipeline, << >>, 0, 0, NoOutput)

\* The run ended by the exception of load_pipeline: nothing below line 20 ran.
ErrorPage(submitted) ==
    Page("error", FALSE, submitted, NoPipeline, << >>, 0, 0, NoOutput)

\* The form and the static panels, the `if submitted:` body skipped.
FormPage(pipeline) ==
    Page("form", TRUE, FALSE, pipeline, << >>, 0, 0, NoOutput)

\* The form, then the `if submitted:` body: the DataFrame is built from the
\* five values, predict and predict_proba are each called once on it, and
\* the verdict, the table and the metrics are displayed.
ResultPage(pipeline, v) ==
    Page("result", TRUE, TRUE, pipeline, input_frame(v), 1, 1,
         render(v, predict(pipeline.clf, input_frame(v)),
                predict_proba(pipeline.clf, input_frame(v))))

RunResult(ld, pg) ==
    [cache |-> ld.cache, deserialized |-> ld.deserialized, page |-> pg]

\* A script that catches the load error, reports it and carries on.
script_run_swallowing(c, file, n, submitted, v) ==
    IF ~load_pipeline(c, file, n).ok
    THEN RunResult(load_pipeline(c, file, n),
                   [FormPage(NoPipeline) EXCEPT !.outcome = "error"])
    ELSE IF submitted
         THEN RunResult(load_pipeline(c, file, n),
                        ResultPage(load_pipeline(c, file, n).pipeline, v))
    ELSE RunResult(load_pipeline(c, file, n),
                   FormPage(load_pipeline(c, file, n).pipeline))

\* A script whose analysis is not guarded by `if submitted:`.
script_run_unguarded(c, file, n, submitted, v) ==
    IF ~load_pipeline(c, file, n).ok
    THEN RunResult(load_pipeline(c, file, n), ErrorPage(submitted))
    ELSE RunResult(load_pipeline(c, file, n),
                   [ResultPage(load_pipeline(c, file, n).pipeline, v)
                        EXCEPT !.submitted = submitted])

\* One execution of the script, top to bottom: `c` the cache entry and
\* `file` the artifact at the time of the run, `n` the identity a newly
\* deserialized object would get, `submitted` the return value of
\* st.form_submit_button, `v` the values the sliders return.
script_run(c, file, n, submitted, v) ==
    IF ~load_pipeline(c, file, n).ok
    THEN RunResult(load_pipeline(c, file, n), ErrorPage(submitted))
    ELSE IF submitted
         THEN RunResult(load_pipeline(c, file, n),
                        ResultPage(load_pipeline(c, file, n).pipeline, v))
    ELSE RunResult(load_pipeline(c, file, n),
                   FormPage(load_pipeline(c, file, n).pipeline))

\* ---------------------------------------------------------- the process
ProcInit ==
    /\ cache = NoPipeline
    /\ loads = 0
    /\ values = [s \in Sessions |-> DefaultValues]
    /\ page = [s \in Sessions |-> NoPage]

EvalIdle == sample = DefaultValues /\ out = NoOutput /\ prev = NoOutput

Init == artifact \in 0..NumArtifacts /\ ProcInit /\ EvalIdle

\* Session s executes the script with the slider values v.
ScriptRun(s, submitted, v) ==
    LET run == script_run(cache, artifact, loads + 1, submitted, v) IN
    /\ loads < MaxLoads
    /\ cache' = run.cache
    /\ loads' = loads + run.deserialized
    /\ page' = [page EXCEPT ![s] = run.page]
    /\ values' = [values EXCEPT ![s] = v]
    /\ UNCHANGED << artifact, evalVars >>

\* A browser opens or reloads the page: a new session, sliders at `value`.
PageLoad(s) ==
    /\ s \in Sessions
    /\ ScriptRun(s, FALSE, DefaultValues)

\* "Rerun" in a session that is open: the widget values stay as they are.
Rerun(s) ==
    /\ page[s].outcome # "none"
    /\ ScriptRun(s, FALSE, values[s])

\* "Analyze Water Safety" is pressed in a session that displays the form;
\* the form delivers the slider values v with the click.
Submit(s, v) ==
    /\ page[s].form
    /\ ScriptRun(s, TRUE, v)

\* The file on disk is put in place, replaced or removed.
ReplaceArtifact(k) ==
    /\ k # artifact
    /\ artifact' = k
    /\ UNCHANGED << cache, loads, values, page, evalVars >>

Next ==
    \/ \E s \in Sessions : PageLoad(s)
    \/ \E s \in Sessions : Rerun(s)
    \/ \E s \in Sessions : \E v \in FormValues : Submit(s, v)
    \/ \E k \in 0..NumArtifacts : ReplaceArtifact(k)

Spec == Init /\ [][Next]_vars

\* ------------------------------------------------- the renderer alone
\* The `if submitted:` body run on a sample with a stub in place of the
\* pipeline: the stub may answer any label and any probability vector.
\* The samples cover every pH of the slider, every threshold of the four
\* other tables with its neighbours, and every combination of tiers.

\* The two scenarios of the specification's section 8.
Scenarios == {DefaultValues, Values(90, 70, 1000, 20, 1600)}

TemperatureProbes == {0, 44, 59, 60, 61, 70, 79, 80, 81, 100}

TurbidityProbes == {0, 1, 300, 499, 500, 501, 1000, 1999, 2000, 2001, 10000}

DissolvedOxygenProbes == {0, 20, 29, 30, 31, 59, 60, 61, 80, 200, 2000}

ConductivityProbes ==
    {0, 350, 990, 1000, 1010, 1490, 1500, 1510, 1600, 2000, 20000}

TierSamples ==
    {Values(p, t, u, d, c) :
        p \in {30, 50, 70, 90, 100}, t \in {44, 70, 100},
        u \in {1, 1000, 10000}, d \in {80, 40, 20}, c \in {350, 1200, 1600}}

EvalSamples ==
    TierSamples
    \cup {[b EXCEPT !.ph = p] : b \in Scenarios, p \in SliderValues(ph_slider)}
    \cup {[b EXCEPT !.temperature = x] : b \in Scenarios, x \in TemperatureProbes}
    \cup {[b EXCEPT !.turbidity = x] : b \in Scenarios, x \in TurbidityProbes}
    \cup {[b EXCEPT !.dissolved_oxygen = x] :
             b \in Scenarios, x \in DissolvedOxygenProbes}
    \cup {[b EXCEPT !.conductivity = x] :
             b \in Scenarios, x \in ConductivityProbes}

EvalInit ==
    /\ artifact = 0
    /\ ProcInit
    /\ sample \in EvalSamples
    /\ out = NoOutput
    /\ prev = NoOutput

\* The body runs on `sample` with the stub answering (prediction, proba).
Analyse(prediction, prediction_proba) ==
    /\ out' = render(sample, prediction, prediction_proba)
    /\ prev' = out
    /\ UNCHANGED << sample, procVars >>

EvalNext ==
    \E prediction \in {0, 1} : \E prediction_proba \in ProbaVectors :
        Analyse(prediction, prediction_proba)

SpecEval == EvalInit /\ [][EvalNext]_vars

\* ------------------------------------------------------------ the claims
\* The tier a status string belongs to, read from its icon.
Tier(status) ==
    CASE status.icon = "check" -> "optimal"
      [] status.icon = "warning" -> "caution"
      [] status.icon = "cross" -> "dangerous"

\* The tier of a value v: optimal on [lo, hi], caution on the rest of
\* [clo, chi], dangerous outside.
Band(v, clo, lo, hi, chi) ==
    IF lo <= v /\ v <= hi THEN "optimal"
    ELSE IF clo <= v /\ v <= chi THEN "caution"
    ELSE "dangerous"

\* C1: for every pH the slider can deliver, the pH row's status is 'Optimal'
\* for 6.5 <= pH <= 8.5 (both ends included), of the caution tier for
\* 4.5 <= pH < 6.5 and 8.5 < pH <= 9.5, and of the dangerous tier below 4.5
\* and above 9.5.
C1_PhStatusTable ==
    out.rendered =>
        /\ Tier(out.rows[1].Status) = Band(sample.ph, 45, 65, 85, 95)
        /\ (65 <= sample.ph /\ sample.ph <= 85
                => out.rows[1].Status.text = "Optimal")

\* C2: the statuses of the temperature, turbidity, dissolved-oxygen and
\* conductivity rows follow the threshold table (optimal below 30 / below 5 /
\* from 6 / below 1000; caution up to but excluding 40 / 20 / 1500 and from 3;
\* dangerous beyond), and the sample (9.0, 35.0, 10.0, 2.0, 1600) gives
\* caution, caution, dangerous, dangerous for them.
C2_StatusTable ==
    out.rendered =>
        /\ Tier(out.rows[2].Status)
             = (IF sample.temperature < 60 THEN "optimal"
                ELSE IF sample.temperature < 80 THEN "caution" ELSE "dangerous")
        /\ Tier(out.rows[3].Status)
             = (IF sample.turbidity < 500 THEN "optimal"
                ELSE IF sample.turbidity < 2000 THEN "caution" ELSE "dangerous")
        /\ Tier(out.rows[4].Status)
             = (IF sample.dissolved_oxygen >= 60 THEN "optimal"
                ELSE IF sample.dissolved_oxygen >= 30 THEN "caution"
                ELSE "dangerous")
        /\ Tier(out.rows[5].Status)
             = (IF sample.conductivity < 1000 THEN "optimal"
                ELSE IF sample.conductivity < 1500 THEN "caution"
                ELSE "dangerous")
        /\ (sample = Values(90, 70, 1000, 20, 1600)
                => [i \in 2..5 |-> Tier(out.rows[i].Status)]
                     = [i \in 2..5 |-> IF i <= 3 THEN "caution" ELSE "dangerous"])

\* The second scenario has been rendered.
C2_Witness ==
    /\ out.rendered
    /\ sample = Values(90, 70, 1000, 20, 1600)
    /\ out.rows[2].Status.text = "Elevated"
    /\ out.rows[3].Status.text = "Cloudy"
    /\ out.rows[4].Status.text = "Hypoxic"
    /\ out.rows[5].Status.text = "Very High"

\* C3: every sample analysed after a submission has pH in [0, 14],
\* temperature in [0, 50], turbidity in [0, 100], dissolved oxygen in [0, 20]
\* and conductivity in [0, 2000].
C3_SampleInRange ==
    \A s \in Sessions :
        page[s].outcome = "result" =>
            /\ 0 <= page[s].input_data[1] /\ page[s].input_data[1] <= 140
            /\ 0 <= page[s].input_data[2] /\ page[s].input_data[2] <= 100
            /\ 0 <= page[s].input_data[3] /\ page[s].input_data[3] <= 10000
            /\ 0 <= page[s].input_data[4] /\ page[s].input_data[4] <= 200
            /\ 0 <= page[s].input_data[5] /\ page[s].input_data[5] <= 2000

\* C4: over all runs of all sessions the artifact is deserialized at most
\* once; every run that got a pipeline got the one object in the cache, which
\* is the first object ever deserialized, and the cache entry never changes
\* once it is there.
C4_LoadedOnce ==
    /\ [](/\ loads <= 1
          /\ (cache.full <=> loads = 1)
          /\ \A s \in Sessions :
                page[s].pipeline.full =>
                    /\ cache.full
                    /\ page[s].pipeline = cache
                    /\ page[s].pipeline.obj = 1)
    /\ [][cache.full => cache' = cache]_vars

\* Two sessions were served by the cached object, one of them a
\* classification, after the file on disk had been replaced by another.
C4_Witness ==
    /\ loads = 1
    /\ artifact # cache.clf
    /\ \E s, u \in Sessions :
          /\ s # u
          /\ page[s].outcome = "result"
          /\ page[u].pipeline.full

\* C5 as the specification states it: once a load has failed (a session
\* still displays the failed run), no session is presented the form, no
\* sample is classified and nothing is rendered.
C5_FailureIsFatalToProcess ==
    (\E s \in Sessions : page[s].outcome = "error") =>
        \A u \in Sessions :
            /\ ~page[u].form
            /\ ~page[u].output.rendered
            /\ page[u].predict_calls = 0
            /\ page[u].proba_calls = 0

\* C5, amended: a failed load ends the run it happens in: that run presents
\* no form, classifies nothing and renders nothing.  A failed load happens
\* only while nothing is cached, hence never in a submission.
C5_FailureEndsTheRun ==
    \A s \in Sessions :
        page[s].outcome = "error" =>
            /\ ~page[s].form
            /\ ~page[s].submitted
            /\ ~page[s].pipeline.full
            /\ ~page[s].output.rendered
            /\ page[s].output.rows = << >>
            /\ page[s].predict_calls = 0
            /\ page[s].proba_calls = 0

\* A session's run failed at the load, and the artifact is in place again.
C5_Witness ==
    \E s \in Sessions : page[s].outcome = "error" /\ artifact # 0

\* C6: the confidence shown is the largest class probability as a
\* percentage; it lies in [0, 100] and, the k probabilities being
\* non-negative and summing to one, is at least 100 / k.
C6_Confidence ==
    out.rendered =>
        LET p == out.prediction_proba
            c == out.panel.confidence
        IN  /\ \E i \in DOMAIN p : c = p[i] * 100
            /\ \A i \in DOMAIN p : p[i] * 100 <= c
            /\ 0 <= c /\ c <= 100 * ProbScale
            /\ c * Len(p) >= 100 * ProbScale

\* A rendering whose probabilities differ and whose confidence is not 100 %.
C6_Witness ==
    /\ out.rendered
    /\ out.prediction_proba[1] # out.prediction_proba[2]
    /\ out.prediction_proba[1] > 0
    /\ out.prediction_proba[2] > 0
    /\ out.panel.confidence < 100 * ProbScale

\* C7: two submissions of the same five values, in whatever sessions and
\* with whatever happened in between, show the same verdict and confidence.
C7_Deterministic ==
    \A s, u \in Sessions :
        (/\ page[s].outcome = "result"
         /\ page[u].outcome = "result"
         /\ page[s].input_data = page[u].input_data)
            => page[s].output.panel = page[u].output.panel

\* Two sessions display the analysis of the same non-default sample while a
\* different artifact lies on disk than the one that was loaded.
C7_Witness ==
    /\ artifact # 0
    /\ artifact # cache.clf
    /\ \E s, u \in Sessions :
          /\ s # u
          /\ page[s].outcome = "result"
          /\ page[u].outcome = "result"
          /\ page[s].input_data = page[u].input_data
          /\ values[s] # DefaultValues

\* C8: the detail table and the three metrics of a sample are the same
\* whatever the classifier answered; two renderings of one sample differ in
\* the verdict panel only.
C8_TableIndependentOfVerdict ==
    (out.rendered /\ prev.rendered) =>
        /\ out.rows = prev.rows
        /\ out.metrics = prev.metrics

\* The sample was rendered twice, once as safe and once as unsafe, with
\* different confidences.
C8_Witness ==
    /\ out.rendered
    /\ prev.rendered
    /\ out.panel.safe # prev.panel.safe
    /\ out.panel.confidence # prev.panel.confidence

OptimalImpacts ==
    << "Ideal for drinking", "No direct impact", "Clear and safe",
       "Supports aquatic life", "Normal mineral content" >>

CautionImpacts ==
    << "May cause irritation", "Affects taste", "May harbor pathogens",
       "Stressful for organisms", "Elevated minerals" >>

DangerousImpacts ==
    << "Harmful to health", "Risk of scalding", "High pathogen risk",
       "Dangerously low oxygen", "Very high contamination risk" >>

\* C9: in each of the five rows the health impact is of the tier of the
\* status: the row's optimal impact exactly when the status is optimal, its
\* caution impact exactly when caution, its dangerous impact exactly when
\* dangerous.
C9_ImpactTierMatchesStatus ==
    out.rendered =>
        \A i \in 1..5 :
            /\ out.rows[i].HealthImpact = OptimalImpacts[i]
                 <=> Tier(out.rows[i].Status) = "optimal"
            /\ out.rows[i].HealthImpact = CautionImpacts[i]
                 <=> Tier(out.rows[i].Status) = "caution"
            /\ out.rows[i].HealthImpact = DangerousImpacts[i]
                 <=> Tier(out.rows[i].Status) = "dangerous"

\* C10: the model is called and a verdict and table are displayed only in a
\* run started by the submit button; that run calls predict once and
\* predict_proba once, on the five values it was submitted with, and displays
\* the verdict and the table computed from them; any other run displays no
\* verdict and calls nothing.
C10_OnlyOnSubmission ==
    \A s \in Sessions :
        /\ (\/ page[s].output.rendered
            \/ page[s].predict_calls > 0
            \/ page[s].proba_calls > 0) => page[s].submitted
        /\ page[s].submitted =>
              /\ page[s].predict_calls = 1
              /\ page[s].proba_calls = 1
              /\ page[s].input_data = input_frame(values[s])
              /\ page[s].output.rendered
              /\ page[s].output.rows = param_eval(values[s])
              /\ page[s].output.metrics = metrics(values[s])
              /\ page[s].output.panel
                   = verdict_panel(
                        predict(cache.clf, input_frame(values[s])),
                        confidence(predict_proba(cache.clf,
                                                 input_frame(values[s]))))

\* One session displays the analysis of a non-default sample while another,
\* run without a submission, displays the form alone.
C10_Witness ==
    \E s, u \in Sessions :
        /\ page[s].submitted
        /\ page[s].output.rendered
        /\ values[s] # DefaultValues
        /\ page[u].outcome = "form"
        /\ ~page[u].output.rendered

====
